---- MODULE Spec2Model ----
(***************************************************************************)
(* The recommendation window of finalproject.py: show_recommendations      *)
(* keeps a window (display_indices) of at most five row indices of the     *)
(* ranked table (top_matches) and a cursor (next_index) to the next row    *)
(* not yet shown; each round prints the window, reads y/n, and on y reads  *)
(* the numbers of the seen movies and replaces them.                       *)
(* filter_movies (the ranking) and check_oscar_status (the award lookup)   *)
(* are functions of their arguments; each has a specification of its own.  *)
(***************************************************************************)
EXTENDS Integers, Sequences, FiniteSets, TLC

\* ------------------------------------------------------------- bounds
\* Longest ranked table the session is started with.
MaxN == 7
\* Most comma-separated entries typed in one answer.
MaxTokens == 2

\* ------------------------------------------------- program constants
\* min(5, len(top_matches))
DisplayLimit == 5

\* Largest number typed as an entry: one past the last slot of a full window.
MaxNum == DisplayLimit + 1

VARIABLES
    top_matches,      \* the ranked table, a sequence of titles (row idx = position - 1)
    display_indices,  \* the window: row indices, in slot order
    next_index,       \* cursor: the next row not yet shown
    pc,               \* "start", "Presenting", "AwaitingDecision", "Exhausted"
    out,              \* what the last step printed, as a sequence of events
    view,             \* the titles printed by the last presentation
    call,             \* the 'y' round just processed: its input, the set built, the order iterated, the state before
    retired,          \* history: the row indices replaced out of the window so far
    shown,            \* history: the row indices that have been in the window so far
    df,               \* filter_movies: the catalog, rows in file order, each with its index label
    prefs,            \* filter_movies: the preferences
    sorted_df,        \* filter_movies: the rows returned, in order
    printed,          \* filter_movies: what it printed
    fpc,              \* filter_movies: "idle", "call", "returned", "raised"
    oscar_df,         \* check_oscar_status: the award rows in file order, or None
    movie_title,      \* check_oscar_status: the title looked up
    oscar_info,       \* check_oscar_status: the value returned
    opc               \* check_oscar_status: "idle", "call", "returned", "raised"

windowVars == <<top_matches, display_indices, next_index, pc, out, view,
                call, retired, shown>>

filterVars == <<df, prefs, sorted_df, printed, fpc>>

oscarVars == <<oscar_df, movie_title, oscar_info, opc>>

vars == <<windowVars, filterVars, oscarVars>>

Min(a, b) == IF a <= b THEN a ELSE b

Range(s) == {s[i] : i \in 1..Len(s)}

\* ------------------------------------------------------------- input
\* One comma-separated entry of the answer, after strip(): a string of
\* digits that int() reads as val ("num"), a string isdigit() rejects, such
\* as "", "abc" or "-1" ("text"), or a string isdigit() accepts and int()
\* rejects, such as a superscript digit ("raises").
Tokens ==
    [kind : {"num"}, val : 0..MaxNum] \cup [kind : {"text", "raises"}, val : {0}]

TokenSeqs == UNION {[1..k -> Tokens] : k \in 1..MaxTokens}

isdigit(tok) == tok.kind # "text"

IntRaises(tok) == tok.kind = "raises"

\* ------------------------------------------------------------ events
Event(e, p) == [ev |-> e, pos |-> p]

\* The state of the parsing loop: the set built, the prints, and whether
\* int() raised (which leaves the try block).
ParseState(seen, outs, raised) == [seen |-> seen, outs |-> outs, raised |-> raised]

\* ParseStep with the lower bound test off by one (val <= 0): slot 1 is rejected.
ParseStepRejectsFirst(st, tok, nslots) ==
    IF st.raised THEN st
    ELSE IF ~isdigit(tok)
        THEN ParseState(st.seen, Append(st.outs, Event("not_a_number", 0)), FALSE)
    ELSE IF IntRaises(tok)
        THEN ParseState(st.seen, st.outs, TRUE)
    ELSE LET val == tok.val - 1 IN
        IF val <= 0 \/ val >= nslots
        THEN ParseState(st.seen, Append(st.outs, Event("invalid_position", val + 1)), FALSE)
        ELSE ParseState(st.seen \cup {val}, st.outs, FALSE)

\* One iteration of the loop over seen_nums.split(',').
ParseStep(st, tok, nslots) ==
    IF st.raised THEN st
    ELSE IF ~isdigit(tok)
        THEN ParseState(st.seen, Append(st.outs, Event("not_a_number", 0)), FALSE)
    ELSE IF IntRaises(tok)
        THEN ParseState(st.seen, st.outs, TRUE)
    ELSE LET val == tok.val - 1 IN
        IF val < 0 \/ val >= nslots
        THEN ParseState(st.seen, Append(st.outs, Event("invalid_position", val + 1)), FALSE)
        ELSE ParseState(st.seen \cup {val}, st.outs, FALSE)

RECURSIVE ParseFrom(_, _, _, _)
ParseFrom(st, tokens, i, nslots) ==
    IF i > Len(tokens) THEN st
    ELSE ParseFrom(ParseStep(st, tokens[i], nslots), tokens, i + 1, nslots)

\* The loop that builds seen_indices from the typed entries.
ParseSeen(tokens, nslots) == ParseFrom(ParseState({}, <<>>, FALSE), tokens, 1, nslots)

\* SetIterOrders for a list that keeps a repeated entry: the first element
\* is visited again at the end.
SetIterOrdersRepeat(S) ==
    IF S = {} THEN {<<>>}
    ELSE {Append(f, f[1]) : f \in
            {g \in [1..Cardinality(S) -> S] :
                \A i, j \in 1..Cardinality(S) : g[i] = g[j] => i = j}}

\* The orders in which "for seen_idx in seen_indices" may visit a set:
\* Python defines no iteration order for a set, so every order of its
\* elements is possible (hash order in CPython, entry order in PyPy).
SetIterOrders(S) ==
    {f \in [1..Cardinality(S) -> S] : \A i, j \in 1..Cardinality(S) : f[i] = f[j] => i = j}

\* The state of the replacement loop.
ReplState(disp, nxt, outs, gone) == [disp |-> disp, nxt |-> nxt, outs |-> outs, gone |-> gone]

\* ReplaceStep without "next_index += 1".
ReplaceStepNoAdvance(st, seen_idx, n) ==
    IF st.nxt < n
    THEN ReplState([st.disp EXCEPT ![seen_idx + 1] = st.nxt], st.nxt, st.outs,
                   st.gone \cup {st.disp[seen_idx + 1]})
    ELSE ReplState(st.disp, st.nxt, Append(st.outs, Event("no_replacement", seen_idx + 1)),
                   st.gone)

\* ReplaceStep with the test "next_index <= len(top_matches)".
ReplaceStepPastEnd(st, seen_idx, n) ==
    IF st.nxt <= n
    THEN ReplState([st.disp EXCEPT ![seen_idx + 1] = st.nxt], st.nxt + 1, st.outs,
                   st.gone \cup {st.disp[seen_idx + 1]})
    ELSE ReplState(st.disp, st.nxt, Append(st.outs, Event("no_replacement", seen_idx + 1)),
                   st.gone)

\* ReplaceStep with the increment before the assignment.
ReplaceStepIncrementFirst(st, seen_idx, n) ==
    IF st.nxt < n
    THEN ReplState([st.disp EXCEPT ![seen_idx + 1] = st.nxt + 1], st.nxt + 1, st.outs,
                   st.gone \cup {st.disp[seen_idx + 1]})
    ELSE ReplState(st.disp, st.nxt, Append(st.outs, Event("no_replacement", seen_idx + 1)),
                   st.gone)

\* ReplaceStep that wraps around to row 0 when no row is left.
ReplaceStepWrapAround(st, seen_idx, n) ==
    IF st.nxt < n
    THEN ReplState([st.disp EXCEPT ![seen_idx + 1] = st.nxt], st.nxt + 1, st.outs,
                   st.gone \cup {st.disp[seen_idx + 1]})
    ELSE ReplState([st.disp EXCEPT ![seen_idx + 1] = 0], st.nxt, st.outs,
                   st.gone \cup {st.disp[seen_idx + 1]})

\* ReplaceStep that removes the seen slot and appends the new row at the end.
ReplaceStepShift(st, seen_idx, n) ==
    IF st.nxt < n
    THEN ReplState([i \in 1..Len(st.disp) |->
                        IF i < seen_idx + 1 THEN st.disp[i]
                        ELSE IF i < Len(st.disp) THEN st.disp[i + 1]
                        ELSE st.nxt],
                   st.nxt + 1, st.outs, st.gone \cup {st.disp[seen_idx + 1]})
    ELSE ReplState(st.disp, st.nxt, Append(st.outs, Event("no_replacement", seen_idx + 1)),
                   st.gone)

\* One iteration of the loop over seen_indices.
ReplaceStep(st, seen_idx, n) ==
    IF st.nxt < n
    THEN ReplState([st.disp EXCEPT ![seen_idx + 1] = st.nxt], st.nxt + 1, st.outs,
                   st.gone \cup {st.disp[seen_idx + 1]})
    ELSE ReplState(st.disp, st.nxt, Append(st.outs, Event("no_replacement", seen_idx + 1)),
                   st.gone)

RECURSIVE ReplaceFrom(_, _, _, _)
ReplaceFrom(st, order, i, n) ==
    IF i > Len(order) THEN st
    ELSE ReplaceFrom(ReplaceStep(st, order[i], n), order, i + 1, n)

\* NoValid without its test.
NoValidAlways(seen, outs) == Append(outs, Event("no_valid_selections", 0))

\* The trailing "if not seen_indices" of the try block.
NoValid(seen, outs) ==
    IF seen = {} THEN Append(outs, Event("no_valid_selections", 0)) ELSE outs

NoCall == [tokens |-> <<>>, seen |-> {}, order |-> <<>>, raised |-> FALSE,
           pre_display |-> <<>>, pre_next |-> 0, done |-> FALSE]

\* ------------------------------------------------------------- state
Tables == {[i \in 1..n |-> i] : n \in 0..MaxN}

\* No call of filter_movies is modelled.
FilterIdle ==
    /\ df = <<>>
    /\ prefs = <<>>
    /\ sorted_df = <<>>
    /\ printed = <<>>
    /\ fpc = "idle"

\* No call of check_oscar_status is modelled.
OscarIdle ==
    /\ oscar_df = {}
    /\ movie_title = <<>>
    /\ oscar_info = {}
    /\ opc = "idle"

\* No session of show_recommendations is modelled.
WindowIdle ==
    /\ top_matches = <<>>
    /\ display_indices = <<>>
    /\ next_index = 0
    /\ pc = "idle"
    /\ out = <<>>
    /\ view = <<>>
    /\ call = NoCall
    /\ retired = {}
    /\ shown = {}

Init ==
    /\ top_matches \in Tables
    /\ display_indices = <<>>
    /\ next_index = 0
    /\ pc = "start"
    /\ out = <<>>
    /\ view = <<>>
    /\ call = NoCall
    /\ retired = {}
    /\ shown = {}
    /\ FilterIdle
    /\ OscarIdle

\* InitialWindow as list(range(5)), without the min.
InitialWindowNoMin(n) == [i \in 1..DisplayLimit |-> i - 1]

\* InitialWindow numbered from 1.
InitialWindowFromOne(n) == [i \in 1..Min(DisplayLimit, n) |-> i]

\* The window the session starts with.
InitialWindow(n) == [i \in 1..Min(DisplayLimit, n) |-> i - 1]

\* Entry of show_recommendations, up to the loop.
Initialize ==
    /\ pc = "start"
    /\ IF Len(top_matches) = 0
       THEN /\ out' = <<Event("no_recommendations", 0)>>
            /\ pc' = "Exhausted"
            /\ UNCHANGED <<display_indices, next_index, shown>>
       ELSE /\ display_indices' = InitialWindow(Len(top_matches))
            /\ next_index' = Len(InitialWindow(Len(top_matches)))
            /\ shown' = Range(InitialWindow(Len(top_matches)))
            /\ out' = <<>>
            /\ pc' = "Presenting"
    /\ UNCHANGED <<top_matches, view, call, retired>>
    /\ UNCHANGED <<filterVars, oscarVars>>

\* The titles of the rows in the window, in slot order.
currentView == [i \in 1..Len(display_indices) |-> top_matches[display_indices[i] + 1]]

\* The head of the loop: print the window.
PresentView ==
    /\ pc = "Presenting"
    /\ view' = currentView
    /\ out' = <<>>
    /\ call' = NoCall
    /\ pc' = "AwaitingDecision"
    /\ UNCHANGED <<top_matches, display_indices, next_index, retired, shown>>
    /\ UNCHANGED <<filterVars, oscarVars>>

\* Finish without its break.
FinishNoBreak ==
    /\ pc = "AwaitingDecision"
    /\ out' = <<Event("enjoy", 0)>>
    /\ pc' = "Presenting"
    /\ UNCHANGED <<top_matches, display_indices, next_index, view, call, retired, shown>>
    /\ UNCHANGED <<filterVars, oscarVars>>

\* The answer 'n'.
Finish ==
    /\ pc = "AwaitingDecision"
    /\ out' = <<Event("enjoy", 0)>>
    /\ pc' = "Exhausted"
    /\ UNCHANGED <<top_matches, display_indices, next_index, view, call, retired, shown>>
    /\ UNCHANGED <<filterVars, oscarVars>>

\* AfterRound with a break at the end of the round.
AfterRoundBreak == "Exhausted"

\* The state the loop goes back to after a 'y' round or an unrecognised answer.
AfterRound == "Presenting"

\* The answer 'y' and the entries typed after it.
MarkSeen ==
    /\ pc = "AwaitingDecision"
    /\ \E tokens \in TokenSeqs :
         LET parsed == ParseSeen(tokens, Len(display_indices)) IN
         IF parsed.raised
         THEN /\ out' = Append(parsed.outs, Event("error", 0))
              /\ call' = [tokens |-> tokens, seen |-> parsed.seen, order |-> <<>>,
                          raised |-> TRUE, pre_display |-> display_indices,
                          pre_next |-> next_index, done |-> TRUE]
              /\ UNCHANGED <<display_indices, next_index, retired, shown>>
         ELSE \E order \in SetIterOrders(parsed.seen) :
              LET r == ReplaceFrom(ReplState(display_indices, next_index, parsed.outs, {}),
                                   order, 1, Len(top_matches)) IN
              /\ display_indices' = r.disp
              /\ next_index' = r.nxt
              /\ retired' = retired \cup r.gone
              /\ shown' = shown \cup Range(r.disp)
              /\ out' = NoValid(parsed.seen, r.outs)
              /\ call' = [tokens |-> tokens, seen |-> parsed.seen, order |-> order,
                          raised |-> FALSE, pre_display |-> display_indices,
                          pre_next |-> next_index, done |-> TRUE]
    /\ pc' = AfterRound
    /\ UNCHANGED <<top_matches, view>>
    /\ UNCHANGED <<filterVars, oscarVars>>

\* Any other answer.
Unrecognised ==
    /\ pc = "AwaitingDecision"
    /\ out' = <<Event("please_y_or_n", 0)>>
    /\ pc' = AfterRound
    /\ UNCHANGED <<top_matches, display_indices, next_index, view, call, retired, shown>>
    /\ UNCHANGED <<filterVars, oscarVars>>

Next == Initialize \/ PresentView \/ Finish \/ MarkSeen \/ Unrecognised

Spec == Init /\ [][Next]_vars

\* ------------------------------------------------------- text matching
\* Texts are sequences of characters. str.lower() on the characters used.
lower(c) == IF c = "A" THEN "a" ELSE IF c = "B" THEN "b" ELSE c

\* re.compile(pat) raises re.error: of the regular-expression syntax the
\* model has literal characters, "." and an opening parenthesis that is
\* never closed.
CompileRaises(pat) == "(" \in Range(pat) /\ ")" \notin Range(pat)

\* One pattern character against one text character under re.IGNORECASE.
CharMatches(p, c) == p = "." \/ lower(p) = lower(c)

\* regex.search(text) is not None, for a pattern that compiles.
re_search(pat, text) ==
    \E k \in 0..(Len(text) - Len(pat)) :
        \A i \in 1..Len(pat) : CharMatches(pat[i], text[k + i])

\* Series.str.contains(pat, case=False, na=False) on one value: regex=True
\* is the default, so pat is a regular expression.
str_contains(pat, text) == re_search(pat, text)

\* sub.lower() in text.lower(): plain substring, ignoring case.
ContainsIgnoreCase(sub, text) ==
    \E k \in 0..(Len(text) - Len(sub)) :
        \A i \in 1..Len(sub) : lower(sub[i]) = lower(text[k + i])

\* ------------------------------------------------------ filter_movies
\* Most rows of a catalog whose filtering is checked.
MaxCatalog == 2
\* Most rows of a catalog whose ranking is checked.
MaxRows == 3

\* An optional value is a set with at most one element; {} is None.
IsNone(x) == x = {}

\* Truth value of an optional string: None and "" are false.
Truthy(x) == x # {} /\ x # {""}

\* The same for an optional text (a string held as a sequence of characters).
TruthyText(x) == x # {} /\ x # {<<>>}

\* The value of an optional that is not None.
ValueOf(x) == CHOOSE v \in x : TRUE

\* The result of a call: raised, or the rows returned and the prints.
Raised(what) == [raised |-> TRUE, error |-> what, rows |-> <<>>, outs |-> <<>>]

Returned(rows, outs) == [raised |-> FALSE, error |-> "", rows |-> rows, outs |-> outs]

\* The conditions of lines 119-128 on one row.
RowPasses(row, p) ==
    /\ Truthy(p.genre) => ValueOf(p.genre) \in row.Genre
    /\ ~IsNone(p.min_rating) => row.Rating >= ValueOf(p.min_rating)
    /\ ~IsNone(p.min_year) => row.Year >= ValueOf(p.min_year)
    /\ ~IsNone(p.max_year) => row.Year <= ValueOf(p.max_year)
    /\ ~IsNone(p.max_runtime) => row.Runtime <= ValueOf(p.max_runtime)

\* Whether any of the conditions of lines 119-128 is applied.
AnyFilter(p) ==
    \/ Truthy(p.genre)
    \/ ~IsNone(p.min_rating)
    \/ ~IsNone(p.min_year)
    \/ ~IsNone(p.max_year)
    \/ ~IsNone(p.max_runtime)

\* mask after lines 116-128: a Series indexed 0..len(df)-1. Each "mask &= s"
\* aligns s with mask by index label; a label of mask that df does not have
\* becomes False.
Mask(d, p) ==
    [l \in 0..(Len(d) - 1) |->
        IF AnyFilter(p)
        THEN \E i \in DOMAIN d : d[i].idx = l /\ RowPasses(d[i], p)
        ELSE TRUE]

\* df[mask] raises IndexingError (unalignable boolean Series) when df has an
\* index label that mask does not have.
Unalignable(d, mask) == \E i \in DOMAIN d : d[i].idx \notin DOMAIN mask

RECURSIVE SelectRows(_, _, _)
SelectRows(d, mask, i) ==
    IF i > Len(d) THEN <<>>
    ELSE IF mask[d[i].idx] THEN <<d[i]>> \o SelectRows(d, mask, i + 1)
    ELSE SelectRows(d, mask, i + 1)

\* df[mask]: the rows whose label is True in mask, in the order of df.
BoolIndex(d, mask) == SelectRows(d, mask, 1)

\* KeyBefore with the votes ascending.
KeyBeforeVotesAscending(k1, k2) ==
    \/ k1[1] > k2[1]
    \/ k1[1] = k2[1] /\ k1[2] > k2[2]
    \/ k1[1] = k2[1] /\ k1[2] = k2[2] /\ k1[3] < k2[3]

\* Whether a row with sort key k1 goes before a row with key k2: every
\* column descending, the first column first.
KeyBefore(k1, k2) ==
    \/ k1[1] > k2[1]
    \/ k1[1] = k2[1] /\ k1[2] > k2[2]
    \/ k1[1] = k2[1] /\ k1[2] = k2[2] /\ k1[3] > k2[3]

\* Where a new item goes in a sorted sequence: before the first item it
\* must precede, after every item with an equal key (the sort is stable).
InsertAt(sorted, item) ==
    IF \E j \in DOMAIN sorted : KeyBefore(item.key, sorted[j].key)
    THEN CHOOSE j \in DOMAIN sorted :
            /\ KeyBefore(item.key, sorted[j].key)
            /\ \A h \in 1..(j - 1) : ~KeyBefore(item.key, sorted[h].key)
    ELSE Len(sorted) + 1

Insert(sorted, item) ==
    SubSeq(sorted, 1, InsertAt(sorted, item) - 1) \o <<item>>
        \o SubSeq(sorted, InsertAt(sorted, item), Len(sorted))

RECURSIVE SortFrom(_, _, _)
SortFrom(items, i, sorted) ==
    IF i > Len(items) THEN sorted
    ELSE SortFrom(items, i + 1, Insert(sorted, items[i]))

\* DataFrame.sort_values on several columns: a stable lexicographic sort.
\* items are the rows with their keys; the rows come back in sorted order.
sort_values(items) ==
    [i \in 1..Len(items) |-> SortFrom(items, 1, <<>>)[i].row]

\* The key of the sort with a favourite actor: actor_mask, Rating, Votes.
ActorKey(row, pat) ==
    <<IF str_contains(pat, row.Actors) THEN 1 ELSE 0, row.Rating, row.Votes>>

\* The key of the default sort: Rating, Votes.
DefaultKey(row) == <<0, row.Rating, row.Votes>>

\* The function filter_movies.
filter_movies(d, p) ==
    IF Unalignable(d, Mask(d, p)) THEN Raised("IndexingError")
    ELSE LET filtered_df == BoolIndex(d, Mask(d, p)) IN
        IF TruthyText(p.fav_actor)
        THEN IF CompileRaises(ValueOf(p.fav_actor)) THEN Raised("re.error")
             ELSE Returned(
                    sort_values([i \in DOMAIN filtered_df |->
                        [row |-> filtered_df[i],
                         key |-> ActorKey(filtered_df[i], ValueOf(p.fav_actor))]]),
                    IF \E i \in DOMAIN filtered_df :
                          str_contains(ValueOf(p.fav_actor), filtered_df[i].Actors)
                    THEN <<>>
                    ELSE <<Event("no_actor_matches", 0)>>)
        ELSE Returned(
                sort_values([i \in DOMAIN filtered_df |->
                    [row |-> filtered_df[i], key |-> DefaultKey(filtered_df[i])]]),
                <<>>)

\* The call filter_movies(df, prefs).
FilterMovies ==
    /\ fpc = "call"
    /\ sorted_df' = filter_movies(df, prefs).rows
    /\ printed' = filter_movies(df, prefs).outs
    /\ fpc' = IF filter_movies(df, prefs).raised THEN "raised" ELSE "returned"
    /\ UNCHANGED <<df, prefs, windowVars, oscarVars>>

\* The rows load_movie_data returns keep the index labels of the file: with
\* `dropped` rows of the file removed by dropna before them, the labels
\* start at `dropped`.
Labelled(rows, dropped) ==
    [i \in DOMAIN rows |->
        [idx |-> i - 1 + dropped, Genre |-> rows[i].Genre, Rating |-> rows[i].Rating,
         Year |-> rows[i].Year, Runtime |-> rows[i].Runtime, Votes |-> rows[i].Votes,
         Actors |-> rows[i].Actors]]

DroppedBefore == {0, 1}

\* Rows and preferences that exercise the conditions of lines 119-128.
FilterRows ==
    [Genre : {{"Action", "Drama"}, {"Drama"}}, Rating : {6, 8}, Year : {2006, 2010, 2016},
     Runtime : {90, 150}, Votes : {100}, Actors : {<<"a">>}]

FilterPrefs ==
    [genre : {{}, {""}, {"Action"}}, min_rating : {{}, {8}}, min_year : {{}, {2010}},
     max_year : {{}, {2010}}, max_runtime : {{}, {120}}, fav_actor : {{}}]

\* Rows and preferences that exercise the ranking of lines 132-147.
RankRows ==
    [Genre : {{"Drama"}}, Rating : {6, 8}, Year : {2010}, Runtime : {90},
     Votes : {100, 200}, Actors : {<<"a", "b">>, <<"A", ".">>, <<"b">>}]

RankPrefs ==
    [genre : {{}}, min_rating : {{}}, min_year : {{}}, max_year : {{}}, max_runtime : {{}},
     fav_actor : {{}, {<<>>}, {<<"A">>}, {<<"a", ".">>}, {<<"(">>}, {<<"c">>}}]

SeqsUpTo(S, k) == UNION {[1..m -> S] : m \in 0..k}

InitFilter ==
    /\ \E rows \in SeqsUpTo(FilterRows, MaxCatalog), dropped \in DroppedBefore :
          df = Labelled(rows, dropped)
    /\ prefs \in FilterPrefs
    /\ sorted_df = <<>>
    /\ printed = <<>>
    /\ fpc = "call"
    /\ WindowIdle
    /\ OscarIdle

InitRank ==
    /\ \E rows \in SeqsUpTo(RankRows, MaxRows), dropped \in DroppedBefore :
          df = Labelled(rows, dropped)
    /\ prefs \in RankPrefs
    /\ sorted_df = <<>>
    /\ printed = <<>>
    /\ fpc = "call"
    /\ WindowIdle
    /\ OscarIdle

NextFilter == FilterMovies

SpecFilter == InitFilter /\ [][NextFilter]_vars

SpecRank == InitRank /\ [][NextFilter]_vars

\* -------------------------------------------------- check_oscar_status
\* Most rows of an award dataset.
MaxAwards == 2

\* str(winner).strip().lower() for the values of the winner column used.
strip_lower(w) ==
    IF w \in {"True", " TRUE "} THEN "true"
    ELSE IF w = "False" THEN "false"
    ELSE w

\* status of line 163.
StatusOf(winner) == IF strip_lower(winner) = "true" THEN "Winner" ELSE "Nominated"

\* One element of oscar_info: f"{status} for {category}".
OscarEntry(status, category) == [status |-> status, category |-> category]

RECURSIVE MatchedRows(_, _, _)
\* oscar_df[oscar_df['film'].str.contains(movie_title, case=False, na=False)]
MatchedRows(awards, title, i) ==
    IF i > Len(awards) THEN <<>>
    ELSE IF str_contains(title, awards[i].film)
        THEN <<awards[i]>> \o MatchedRows(awards, title, i + 1)
    ELSE MatchedRows(awards, title, i + 1)

\* The function check_oscar_status. The dataset and the value returned are
\* optional values: {} is None.
check_oscar_status(title, odf) ==
    IF odf # {}
    THEN IF CompileRaises(title)
         THEN [raised |-> TRUE, value |-> {}]
         ELSE LET matched_rows == MatchedRows(ValueOf(odf), title, 1) IN
            IF matched_rows # <<>>
            THEN [raised |-> FALSE,
                  value |-> {[i \in DOMAIN matched_rows |->
                      OscarEntry(StatusOf(matched_rows[i].winner),
                                 matched_rows[i].category)]}]
            ELSE [raised |-> FALSE, value |-> {}]
    ELSE [raised |-> FALSE, value |-> {}]

\* The call check_oscar_status(movie_title, oscar_df).
CheckOscarStatus ==
    /\ opc = "call"
    /\ oscar_info' = check_oscar_status(movie_title, oscar_df).value
    /\ opc' = IF check_oscar_status(movie_title, oscar_df).raised THEN "raised" ELSE "returned"
    /\ UNCHANGED <<oscar_df, movie_title, windowVars, filterVars>>

AwardRows ==
    [film : {<<"a", "b">>, <<"A", ".">>, <<"b">>},
     category : {"Best Picture", "Best Actor"},
     winner : {"True", " TRUE ", "False"}]

Titles == {<<"A">>, <<"a", "b">>, <<"a", ".">>, <<"(">>, <<"c">>}

InitOscar ==
    /\ oscar_df \in {{}} \cup {{rows} : rows \in SeqsUpTo(AwardRows, MaxAwards)}
    /\ movie_title \in Titles
    /\ oscar_info = {}
    /\ opc = "call"
    /\ WindowIdle
    /\ FilterIdle

NextOscar == CheckOscarStatus

SpecOscar == InitOscar /\ [][NextOscar]_vars

\* ------------------------------------------------------------ claims
n == Len(top_matches)

Started == pc # "start" /\ n > 0

Slots == 1..Len(display_indices)

\* A 'y' round whose entries were all read (int() did not raise) has just
\* been processed.
RoundDone == call.done /\ ~call.raised

\* How many times the event e was printed by the last step.
Count(e) == Cardinality({i \in DOMAIN out : out[i] = e})

\* The slots (0-based) named by the entries of an answer that are numbers
\* of a window of nslots slots.
ValidSlots(tokens, nslots) ==
    {tokens[i].val - 1 : i \in {j \in DOMAIN tokens :
        tokens[j].kind = "num" /\ tokens[j].val \in 1..nslots}}

\* C1: no row index is in two slots of the window, and a row index that was
\* replaced out of the window is in no later window: every row enters the
\* window at most once.
C1_NoRepeat ==
    /\ \A i, j \in Slots : display_indices[i] = display_indices[j] => i = j
    /\ retired \cap Range(display_indices) = {}
    /\ \A i \in DOMAIN view : \A j \in DOMAIN view : view[i] = view[j] => i = j

\* Two rows were replaced out, in two different rounds.
C1_Witness ==
    /\ Cardinality(retired) >= 2
    /\ RoundDone
    /\ Cardinality(call.seen) = 1
    /\ call.pre_next < next_index

\* C2: once initialised on a non-empty table, the window has min(5, n)
\* slots, holds pairwise distinct row indices in [0, n), and
\* len(window) <= next_index <= n.
C2_WindowInvariant ==
    Started =>
        /\ Len(display_indices) = Min(DisplayLimit, n)
        /\ \A i \in Slots : display_indices[i] \in 0..(n - 1)
        /\ \A i, j \in Slots : display_indices[i] = display_indices[j] => i = j
        /\ Len(display_indices) <= next_index
        /\ next_index <= n

\* The cursor has reached the end of a table longer than the window.
C2_Witness ==
    /\ Started
    /\ n > DisplayLimit
    /\ next_index = n
    /\ RoundDone

\* The number of marked slots below slot s: the place of s in ascending order.
RankOf(s, S) == Cardinality({t \in S : t < s})

C4_NextBest ==
    /\ Started =>
        /\ shown = 0..(next_index - 1)
        /\ Range(display_indices) \cup retired = 0..(next_index - 1)
    /\ RoundDone =>
        /\ \A i \in DOMAIN call.order :
              i <= n - call.pre_next =>
                  display_indices[call.order[i] + 1] = call.pre_next + (i - 1)
        /\ next_index = call.pre_next + Min(Len(call.order), n - call.pre_next)

\* Two slots were replaced in one round, the higher slot first.
C4_Witness ==
    /\ RoundDone
    /\ Len(call.order) = 2
    /\ call.order[1] > call.order[2]
    /\ next_index = call.pre_next + 2

\* C5: a 'y' round entered with next_index = n leaves every marked slot and
\* next_index as they were, prints one no-replacement line per marked slot,
\* and the loop goes on.
C5_NoReplacementLeft ==
    (RoundDone /\ call.pre_next = n) =>
        /\ display_indices = call.pre_display
        /\ next_index = call.pre_next
        /\ \A s \in ValidSlots(call.tokens, Len(call.pre_display)) :
              Count(Event("no_replacement", s + 1)) = 1
        /\ \A e \in Range(out) :
              e.ev = "no_replacement" =>
                  e.pos - 1 \in ValidSlots(call.tokens, Len(call.pre_display))
        /\ pc = "Presenting"

\* Two slots were marked after the last row of a table longer than the
\* window had been shown.
C5_Witness ==
    /\ RoundDone
    /\ call.pre_next = n
    /\ n > DisplayLimit
    /\ Cardinality(call.seen) = 2
    /\ Count(Event("no_replacement", 2)) = 1

\* The numbers typed in an answer that are no position of a window of
\* nslots slots.
InvalidNumbers(tokens, nslots) ==
    {tokens[i].val : i \in {j \in DOMAIN tokens :
        tokens[j].kind = "num" /\ tokens[j].val \notin 1..nslots}}

\* How many entries of an answer are the number v.
Typed(tokens, v) ==
    Cardinality({i \in DOMAIN tokens : tokens[i].kind = "num" /\ tokens[i].val = v})

\* C6: a number outside [1, len(window)] typed in a 'y' round is reported
\* (one invalid-position print per entry) and skipped: it changes no slot
\* and does not advance next_index, and the valid positions of the same
\* answer are processed as if it had not been typed.
C6_InvalidPosition ==
    RoundDone =>
        /\ \A v \in InvalidNumbers(call.tokens, Len(call.pre_display)) :
              Count(Event("invalid_position", v)) = Typed(call.tokens, v)
        /\ \A e \in Range(out) :
              e.ev = "invalid_position" =>
                  e.pos \in InvalidNumbers(call.tokens, Len(call.pre_display))
        /\ call.seen = ValidSlots(call.tokens, Len(call.pre_display))
        /\ Range(call.order) = ValidSlots(call.tokens, Len(call.pre_display))
        /\ Len(display_indices) = Len(call.pre_display)
        /\ \A i \in Slots :
              (i - 1) \notin ValidSlots(call.tokens, Len(call.pre_display)) =>
                  display_indices[i] = call.pre_display[i]
        /\ next_index = call.pre_next +
              Min(Cardinality(ValidSlots(call.tokens, Len(call.pre_display))),
                  n - call.pre_next)

\* An answer with an invalid number before a valid position, which was
\* replaced.
C6_Witness ==
    /\ RoundDone
    /\ Len(call.tokens) = 2
    /\ call.tokens[1].kind = "num"
    /\ call.tokens[1].val \in {0, Len(call.pre_display) + 1}
    /\ call.tokens[2] = [kind |-> "num", val |-> 1]
    /\ display_indices[1] = call.pre_next
    /\ next_index = call.pre_next + 1

\* C7: a 'y' round with no valid position (nothing typed, or every entry
\* rejected) prints "no valid selections" and leaves the window and
\* next_index unchanged; the line is printed in that case only.
C7_NoValidSelections ==
    RoundDone =>
        /\ ValidSlots(call.tokens, Len(call.pre_display)) = {} =>
              /\ Count(Event("no_valid_selections", 0)) = 1
              /\ display_indices = call.pre_display
              /\ next_index = call.pre_next
        /\ ValidSlots(call.tokens, Len(call.pre_display)) # {} =>
              Count(Event("no_valid_selections", 0)) = 0

\* A round with rows left in which every entry was rejected.
C7_Witness ==
    /\ RoundDone
    /\ call.pre_next < n
    /\ call.seen = {}
    /\ Len(call.tokens) = 2
    /\ Count(Event("no_valid_selections", 0)) = 1

\* C8: on an empty table the function reports "no recommendations" and
\* returns without presenting a view or asking; on a table of n > 0 rows
\* the first window is [0, ..., min(5, n) - 1] with next_index = min(5, n),
\* ready to be presented. The view never has more than 5 or more than n
\* entries.
C8_Initialize ==
    /\ (pc # "start" /\ n = 0) =>
          /\ pc = "Exhausted"
          /\ out = <<Event("no_recommendations", 0)>>
          /\ view = <<>>
          /\ display_indices = <<>>
    /\ (pc # "start" /\ n > 0 /\ view = <<>>) =>
          /\ display_indices = [i \in 1..Min(DisplayLimit, n) |-> i - 1]
          /\ next_index = Min(DisplayLimit, n)
          /\ pc = "Presenting"
    /\ Len(view) <= DisplayLimit /\ Len(view) <= n
    /\ pc # "start" => (Len(currentView) <= DisplayLimit /\ Len(currentView) <= n)
    /\ pc = "AwaitingDecision" => view = currentView

\* The first window of a table shorter than the window size is on screen.
C8_Witness ==
    /\ n \in 1..(DisplayLimit - 1)
    /\ pc = "AwaitingDecision"
    /\ view = [i \in 1..n |-> i]
    /\ next_index = n

\* C9: the answer 'n' is accepted in every round, whatever the window and
\* the rows left, and ends the function: afterwards nothing is presented,
\* no answer is processed, and the window and next_index stay as they are.
C9_FinishTerminal ==
    /\ [](pc = "AwaitingDecision" => ENABLED Finish)
    /\ [][Finish => (pc' = "Exhausted" /\ UNCHANGED <<display_indices, next_index>>)]_vars
    /\ [][pc = "Exhausted" => UNCHANGED vars]_vars

\* The answer 'n' was given after a replacement, with rows still left.
C9_Witness ==
    /\ pc = "Exhausted"
    /\ out = <<Event("enjoy", 0)>>
    /\ retired # {}
    /\ next_index < n

\* C10: after a 'y' round, whatever it printed, and after an unrecognised
\* answer (which changes neither the window nor next_index), the loop is
\* back at its head and presents the window again; once started on a
\* non-empty table the function ends only by the answer 'n'.
C10_LoopContinues ==
    /\ [](call.done => pc = "Presenting")
    /\ [](pc = "Presenting" => ENABLED PresentView)
    /\ [][(pc = "AwaitingDecision" /\ call'.done) => pc' = "Presenting"]_vars
    /\ [][Unrecognised => (pc' = "Presenting" /\ UNCHANGED <<display_indices, next_index>>)]_vars
    /\ [][(pc # "start" /\ pc # "Exhausted" /\ pc' = "Exhausted") => Finish]_vars

\* A round that printed an invalid position, a round whose input raised, or
\* a round with no row left has been processed and the loop goes on.
C10_Witness ==
    /\ call.done
    /\ pc = "Presenting"
    /\ \/ call.raised /\ Event("error", 0) \in Range(out)
       \/ Event("no_valid_selections", 0) \in Range(out)
    /\ retired # {}

\* The slots whose row differs from the one held when the round began.
ChangedSlots == {i \in Slots : display_indices[i] # call.pre_display[i]}

\* C17: next_index never decreases and advances by exactly the number of
\* replacements made; over a session at most n - min(5, n) replacements
\* are made, and once next_index = n no later step changes the window or
\* next_index.
C17_CursorMonotone ==
    /\ [][next_index' >= next_index]_vars
    /\ [](Started =>
            /\ next_index = Min(DisplayLimit, n) + Cardinality(retired)
            /\ Cardinality(retired) <= n - Min(DisplayLimit, n))
    /\ [](RoundDone => next_index - call.pre_next = Cardinality(ChangedSlots))
    /\ [][(Started /\ next_index = n) => UNCHANGED <<display_indices, next_index>>]_vars

\* Slots were marked in a round entered with every row of a table longer
\* than the window already shown.
C17_Witness ==
    /\ RoundDone
    /\ n > DisplayLimit
    /\ call.pre_next = n
    /\ Cardinality(retired) = n - DisplayLimit
    /\ call.seen # {}

\* C18: a 'y' round changes only slots whose positions were typed;
\* presenting the window changes neither the window nor next_index; and no
\* step changes the ranked table.
C18_Frame ==
    /\ [](call.done =>
            /\ Len(display_indices) = Len(call.pre_display)
            /\ \A i \in ChangedSlots :
                  \E j \in DOMAIN call.tokens :
                      call.tokens[j] = [kind |-> "num", val |-> i])
    /\ [][PresentView => UNCHANGED <<display_indices, next_index>>]_vars
    /\ [][top_matches' = top_matches]_vars

\* A middle slot was replaced and the slots around it were not.
C18_Witness ==
    /\ RoundDone
    /\ ChangedSlots = {2}
    /\ Len(display_indices) = DisplayLimit

\* C19: a position typed more than once in a round counts once: its slot
\* is visited once, next_index advances by at most the number of distinct
\* valid positions, and every row taken from the table in the round is in
\* the window after it.
C19_DuplicatesOnce ==
    RoundDone =>
        /\ Len(call.order) = Cardinality(ValidSlots(call.tokens, Len(call.pre_display)))
        /\ \A i, j \in DOMAIN call.order : call.order[i] = call.order[j] => i = j
        /\ next_index - call.pre_next
              <= Cardinality(ValidSlots(call.tokens, Len(call.pre_display)))
        /\ \A r \in call.pre_next..(next_index - 1) : r \in Range(display_indices)

\* The same position was typed twice with two rows left, and one was taken.
C19_Witness ==
    /\ RoundDone
    /\ Len(call.tokens) = 2
    /\ call.tokens[1] = call.tokens[2]
    /\ call.tokens[1].kind = "num"
    /\ call.pre_next + 2 <= n
    /\ next_index = call.pre_next + 1

\* A preference field that imposes a condition: set, and for the genre not
\* the empty string.
Satisfies(row, p) ==
    /\ (p.genre # {} /\ p.genre # {""}) => \A g \in p.genre : g \in row.Genre
    /\ \A r \in p.min_rating : row.Rating >= r
    /\ \A y \in p.min_year : row.Year >= y
    /\ \A y \in p.max_year : row.Year <= y
    /\ \A m \in p.max_runtime : row.Runtime <= m

\* How many rows of a sequence have the index label l.
Occurrences(rows, l) == Cardinality({i \in DOMAIN rows : rows[i].idx = l})

\* C11: filter_movies returns exactly the catalog rows that satisfy every
\* preference field that is set, each once and no others (with no field
\* set, every row).
C11_FilterExact ==
    fpc # "call" =>
        /\ fpc = "returned"
        /\ \A i \in DOMAIN df :
              Occurrences(sorted_df, df[i].idx) = IF Satisfies(df[i], prefs) THEN 1 ELSE 0
        /\ \A j \in DOMAIN sorted_df : \E i \in DOMAIN df : sorted_df[j] = df[i]

\* The favourite actor of the preferences, when one is set and non-empty.
FavSet == prefs.fav_actor # {} /\ prefs.fav_actor # {<<>>}

Fav == CHOOSE a \in prefs.fav_actor : TRUE

\* C12: with a favourite actor set, every returned row whose Actors
\* contains it (as a substring, ignoring case) precedes every returned row
\* whose Actors does not, whatever their ratings and votes.
C12_ActorPriority ==
    (fpc = "returned" /\ FavSet) =>
        \A i, j \in DOMAIN sorted_df :
            (/\ ContainsIgnoreCase(Fav, sorted_df[i].Actors)
             /\ ~ContainsIgnoreCase(Fav, sorted_df[j].Actors)) => i < j

\* The place of a returned row in the catalog.
PlaceInCatalog(row) == CHOOSE i \in DOMAIN df : df[i].idx = row.idx

\* Two returned rows are in the same bucket: no favourite actor is set, or
\* str.contains gave both the same answer.
SameBucket(a, b) ==
    FavSet => (str_contains(Fav, a.Actors) <=> str_contains(Fav, b.Actors))

\* C13: within a bucket the returned rows are in descending order of
\* rating, rows of equal rating in descending order of votes, and rows equal
\* in both in the order they have in the catalog.
C13_OrderWithinBucket ==
    fpc = "returned" =>
        \A i, j \in DOMAIN sorted_df :
            (i < j /\ SameBucket(sorted_df[i], sorted_df[j])) =>
                \/ sorted_df[i].Rating > sorted_df[j].Rating
                \/ /\ sorted_df[i].Rating = sorted_df[j].Rating
                   /\ sorted_df[i].Votes > sorted_df[j].Votes
                \/ /\ sorted_df[i].Rating = sorted_df[j].Rating
                   /\ sorted_df[i].Votes = sorted_df[j].Votes
                   /\ PlaceInCatalog(sorted_df[i]) < PlaceInCatalog(sorted_df[j])

\* Three rows of one bucket came back: the last row of the catalog first,
\* by its votes, and two rows equal in rating and votes in catalog order.
C13_Witness ==
    /\ fpc = "returned"
    /\ FavSet
    /\ Len(sorted_df) = 3
    /\ \A i \in DOMAIN sorted_df : str_contains(Fav, sorted_df[i].Actors)
    /\ sorted_df[1].idx = 2
    /\ sorted_df[1].Rating = sorted_df[2].Rating
    /\ sorted_df[1].Votes > sorted_df[2].Votes
    /\ sorted_df[2].Rating = sorted_df[3].Rating
    /\ sorted_df[2].Votes = sorted_df[3].Votes

\* The rows of the catalog that satisfy the preferences, in catalog order.
FilteredSubset == {i \in DOMAIN df : Satisfies(df[i], prefs)}

\* The returned rows are exactly the filtered subset, ordered by rating
\* descending, then votes descending, then catalog order.
RankedPlain ==
    /\ \A i \in DOMAIN df :
          Occurrences(sorted_df, df[i].idx) = IF i \in FilteredSubset THEN 1 ELSE 0
    /\ Len(sorted_df) = Cardinality(FilteredSubset)
    /\ \A i, j \in DOMAIN sorted_df :
          i < j =>
            \/ sorted_df[i].Rating > sorted_df[j].Rating
            \/ /\ sorted_df[i].Rating = sorted_df[j].Rating
               /\ sorted_df[i].Votes > sorted_df[j].Votes
            \/ /\ sorted_df[i].Rating = sorted_df[j].Rating
               /\ sorted_df[i].Votes = sorted_df[j].Votes
               /\ PlaceInCatalog(sorted_df[i]) < PlaceInCatalog(sorted_df[j])

\* A favourite actor is set and no row of the filtered subset contains it.
NoActorMatch ==
    /\ FavSet
    /\ \A i \in FilteredSubset : ~ContainsIgnoreCase(Fav, df[i].Actors)

\* C16: the "no actor matches" line is printed exactly when a favourite
\* actor is set and no row of the filtered subset contains it; the call then
\* still returns, with the filtered subset in the order it has without a
\* favourite actor. With no favourite actor the line is never printed.
C16_NoActorSignal ==
    fpc # "call" =>
        /\ (Event("no_actor_matches", 0) \in Range(printed)) <=> NoActorMatch
        /\ NoActorMatch => (fpc = "returned" /\ RankedPlain)

\* The won flag of an award row.
Won(award) == award.winner \in {"True", " TRUE "}

RECURSIVE ExpectedFrom(_, _, _)
\* One entry for each award row, from row i on, whose film contains the
\* title as a substring ignoring case, in the order of the rows.
ExpectedFrom(awards, title, i) ==
    IF i > Len(awards) THEN <<>>
    ELSE IF ContainsIgnoreCase(title, awards[i].film)
        THEN <<[status |-> IF Won(awards[i]) THEN "Winner" ELSE "Nominated",
                category |-> awards[i].category]>> \o ExpectedFrom(awards, title, i + 1)
    ELSE ExpectedFrom(awards, title, i + 1)

\* The entries of the value returned: none when it is None.
EntriesOf(info) == IF info = {} THEN <<>> ELSE CHOOSE v \in info : TRUE

\* C14: with a dataset, the lookup returns one (status, category) entry for
\* each award row whose film contains the title as a substring ignoring
\* case, in the order of the rows, Winner exactly for the rows that won;
\* rows whose film does not contain the title contribute nothing.
C14_LookupEntries ==
    (opc = "returned" /\ oscar_df # {}) =>
        EntriesOf(oscar_info) = ExpectedFrom(CHOOSE d \in oscar_df : TRUE, movie_title, 1)

\* No award row's film contains the title, or there is no dataset.
NothingToFind ==
    \/ oscar_df = {}
    \/ ExpectedFrom(CHOOSE d \in oscar_df : TRUE, movie_title, 1) = <<>>

\* C15: when no award row matches the title, and when there is no dataset,
\* the lookup returns an empty sequence: it does not fail and does not
\* return an absence marker.
C15_EmptyNotAbsent ==
    (opc # "call" /\ NothingToFind) => (opc = "returned" /\ oscar_info = {<<>>})

====
